---- MODULE Spec2Model ----
(***************************************************************************)
(* Model of the dataset module of rawgraphs-core: type inference           *)
(* (inferTypes) and tolerant parsing (parseDataset).                       *)
(*                                                                         *)
(* A JavaScript value is a record [t, s]: t is its runtime class and s its *)
(* textual content.  A type descriptor (and a candidate label of the       *)
(* inference) is a record [form, type, dateFormat, decode]: form "ctor" is *)
(* a constructor (Number), "name" a string ("number"), "obj" a plain       *)
(* object ({type, dateFormat, decode}).  Object keys are visited in the    *)
(* order of ColOrder.  Paths of lodash get are single keys.                *)
(***************************************************************************)
EXTENDS Integers, Sequences, FiniteSets, TLC

\* ------------------------------------------------------------------ bounds
MaxInferRows == 3
MaxParseRows == 2

\* ------------------------------------------------------------ JS values
Undefined == [t |-> "undefined", s |-> "undefined"]
Null == [t |-> "null", s |-> "null"]
Num(x) == [t |-> "number", s |-> x]
Str(x) == [t |-> "string", s |-> x]
Bool(x) == [t |-> "boolean", s |-> x]
DateInst(x) == [t |-> "date", s |-> x]
NaN == Num("NaN")
InvalidDate == DateInst("Invalid Date")

\* Texts that are JSON / JS numeric literals, and texts matching YYYY-MM-DD.
NumericTexts == {"5"}
BooleanTexts == {"true"}
DateTexts == {"2020-01-01"}
DateFormatTest == "YYYY-MM-DD"

\* JSON.parse(value): the value is first converted to a string.  Returns
\* [thrown, val].
JSONParse(v) ==
    IF v.t \in {"number", "boolean", "null"} THEN [thrown |-> FALSE, val |-> v]
    ELSE IF v.t = "string" /\ v.s \in NumericTexts THEN [thrown |-> FALSE, val |-> Num(v.s)]
    ELSE IF v.t = "string" /\ v.s \in BooleanTexts THEN [thrown |-> FALSE, val |-> Bool(v.s)]
    ELSE IF v.t = "string" /\ v.s = "null" THEN [thrown |-> FALSE, val |-> Null]
    ELSE [thrown |-> TRUE, val |-> Undefined]

\* dayjs(value, format) with the customParseFormat plugin: only a string
\* matching the pattern parses; any other input gives an invalid date.
DayjsParse(v, format) ==
    IF v.t = "string" /\ format = DateFormatTest /\ v.s \in DateTexts
    THEN DateInst(v.s)
    ELSE InvalidDate

\* dayjs(x).isValid()
DayjsIsValid(v) == v.t = "date" /\ v.s # "Invalid Date"

\* Number(v)
ToNumber(v) ==
    CASE v.t = "number" -> v
      [] v.t = "string" -> IF v.s \in NumericTexts THEN Num(v.s)
                           ELSE IF v.s = "" THEN Num("0") ELSE NaN
      [] v.t = "boolean" -> IF v.s = "true" THEN Num("1") ELSE Num("0")
      [] v.t = "null" -> Num("0")
      [] v.t = "date" -> IF v.s = "Invalid Date" THEN NaN ELSE Num("1577836800000")
      [] OTHER -> NaN

\* Boolean(v)
ToBoolean(v) ==
    IF \/ v.t \in {"undefined", "null"}
       \/ (v.t = "number" /\ v.s \in {"0", "NaN"})
       \/ (v.t = "string" /\ v.s = "")
       \/ (v.t = "boolean" /\ v.s = "false")
    THEN Bool("false") ELSE Bool("true")

\* String(v)
StringOf(v) == Str(v.s)

\* Date(v) called as a function (no new): ignores its argument and returns
\* the current time as a string.
DateCall(v) == Str("Sun Nov 01 2026 00:00:00 GMT+0000")

\* global isNaN(v)
IsNaN(v) == ToNumber(v) = NaN

\* ------------------------------------------------------ type descriptors
Ctor(type) == [form |-> "ctor", type |-> type, dateFormat |-> "", decode |-> ""]
Name(type) == [form |-> "name", type |-> type, dateFormat |-> "", decode |-> ""]
Obj(type, dateFormat, decode) ==
    [form |-> "obj", type |-> type, dateFormat |-> dateFormat, decode |-> decode]

\* Columns, in the order Object.keys visits them.
ColOrder == <<"a", "b">>
Cols == {ColOrder[j] : j \in 1..Len(ColOrder)}

\* Object.keys(obj) for an object modelled as a function on a set of columns.
Keys(obj) == SelectSeq(ColOrder, LAMBDA k : k \in DOMAIN obj)

\* The object with no key.
EmptyObj == [k \in {} |-> Null]

\* lodash get(row, k)
Get(row, k) == IF k \in DOMAIN row THEN row[k] ELSE Undefined

\* getType of utils: the constructor a descriptor stands for ("undefined"
\* when the descriptor names none).
GetType(dataType) ==
    IF dataType.type \in {"number", "boolean", "string", "date"}
    THEN dataType.type
    ELSE IF dataType.form = "name" THEN "string"
    ELSE "undefined"

\* User-supplied decode functions:
\*   "length"     v => v.length       (raises on null and undefined)
\*   "parseFloat" v => parseFloat(v)  (never raises)
Decode(name, v) ==
    IF name = "length"
    THEN IF v.t \in {"undefined", "null"} THEN [thrown |-> TRUE, val |-> Undefined]
         ELSE IF v.t = "string" THEN [thrown |-> FALSE, val |-> Num(ToString(Len(v.s)))]
         ELSE [thrown |-> FALSE, val |-> Undefined]
    ELSE IF v.t = "number" THEN [thrown |-> FALSE, val |-> v]
         ELSE IF v.t = "string" /\ v.s \in NumericTexts THEN [thrown |-> FALSE, val |-> Num(v.s)]
         ELSE [thrown |-> FALSE, val |-> NaN]

\* getFormatter(dataType): which formatter the descriptor selects.
GetFormatter(dataType) ==
    IF dataType.form # "obj" THEN "undefined"
    ELSE IF dataType.decode # "" THEN "decode"
    ELSE IF GetType(dataType) = "date" /\ dataType.dateFormat # "" THEN "dateFormat"
    ELSE "undefined"

\* formatter(rowValue) for the formatter getFormatter returned.
ApplyFormatter(dataType, v) ==
    IF GetFormatter(dataType) = "decode" THEN Decode(dataType.decode, v)
    ELSE [thrown |-> FALSE, val |-> DayjsParse(v, dataType.dateFormat)]

\* -------------------------------------------------------- type inference
\* getValueType(value, strict); strict is a JS value (undefined when the
\* caller passes none).
GetValueType(value, strict) ==
    LET parsed == JSONParse(value)
        jsonValue == IF ToBoolean(strict) = Bool("false") /\ ~parsed.thrown
                     THEN parsed.val ELSE value
    IN  IF jsonValue.t = "number" THEN Name("number")
        ELSE IF jsonValue.t = "boolean" THEN Name("boolean")
        ELSE IF value.t = "date" THEN Name("date")
        ELSE IF DayjsIsValid(DayjsParse(value, DateFormatTest))
             THEN Obj("date", DateFormatTest, "")
        ELSE Name("string")

\* castTypeToString(type): a constructor becomes its lower-cased name,
\* anything else is returned as it is.
CastTypeToString(type) == IF type.form = "ctor" THEN Name(type.type) ELSE type

\* The property key counts[type] uses: the label converted to a string.
PropertyKey(type) ==
    IF type.form = "name" THEN type.type
    ELSE IF type.form = "obj" THEN "[object Object]"
    ELSE "function"

\* The data.forEach of inferTypes: candidateTypes after rows 1..i.
RECURSIVE CandidateTypes(_, _, _)
CandidateTypes(data, strict, i) ==
    IF i = 0 THEN EmptyObj
    ELSE LET prev == CandidateTypes(data, strict, i - 1)
             datum == data[i]
         IN  [k \in DOMAIN prev \cup DOMAIN datum |->
                 (IF k \in DOMAIN prev THEN prev[k] ELSE <<>>) \o
                 (IF k \in DOMAIN datum
                  THEN <<CastTypeToString(GetValueType(datum[k], strict))>>
                  ELSE <<>>)]

\* Position of the entry of key in counts, 0 when there is none.
IndexOfKey(counts, key) ==
    IF \E j \in 1..Len(counts) : counts[j].key = key
    THEN CHOOSE j \in 1..Len(counts) : counts[j].key = key
    ELSE 0

\* The tally of one column: counts, as the sequence of its entries in
\* insertion order, after candidates 1..i.
RECURSIVE Counts(_, _)
Counts(candidates, i) ==
    IF i = 0 THEN <<>>
    ELSE LET prev == Counts(candidates, i - 1)
             type == candidates[i]
             key == PropertyKey(type)
             at == IndexOfKey(prev, key)
         IN  IF at = 0
             THEN Append(prev, [key |-> key, count |-> 1, value |-> type])
             ELSE [prev EXCEPT ![at].count = @ + 1]

\* maxBy with the comparison turned round (the least count wins).
RECURSIVE MaxByLeast(_, _)
MaxByLeast(counts, i) ==
    IF i = 1 THEN 1
    ELSE LET best == MaxByLeast(counts, i - 1)
         IN  IF counts[i].count < counts[best].count THEN i ELSE best

\* maxBy keeping the last of several greatest counts instead of the first.
RECURSIVE MaxByLast(_, _)
MaxByLast(counts, i) ==
    IF i = 1 THEN 1
    ELSE LET best == MaxByLast(counts, i - 1)
         IN  IF counts[i].count >= counts[best].count THEN i ELSE best

\* lodash maxBy over Object.keys(counts): the index of the first entry
\* whose count is greater than every earlier one's.
RECURSIVE MaxBy(_, _)
MaxBy(counts, i) ==
    IF i = 1 THEN 1
    ELSE LET best == MaxBy(counts, i - 1)
         IN  IF counts[i].count > counts[best].count THEN i ELSE best

\* inferTypes(data, strict)
InferTypes(data, strict) ==
    LET candidateTypes == CandidateTypes(data, strict, Len(data))
    IN  [k \in DOMAIN candidateTypes |->
            LET counts == Counts(candidateTypes[k], Len(candidateTypes[k]))
            IN  counts[MaxBy(counts, Len(counts))].value]

\* ------------------------------------------------------- tolerant parser
Returned(v) == [thrown |-> FALSE, val |-> v, err |-> ""]
Thrown(err) == [thrown |-> TRUE, val |-> Undefined, err |-> err]

\* basicGetter(rowValue, dataType); dataType is the coercing function:
\* "identity" for (x) => x, else the constructor getType returned.
BasicGetter(rowValue, dataType) ==
    IF rowValue.t \in {"null", "undefined"} THEN Returned(Null)
    ELSE CASE dataType = "identity" -> Returned(rowValue)
           [] dataType = "number" -> Returned(ToNumber(rowValue))
           [] dataType = "boolean" -> Returned(ToBoolean(rowValue))
           [] dataType = "string" -> Returned(StringOf(rowValue))
           [] dataType = "date" -> Returned(DateCall(rowValue))
           [] OTHER -> Thrown("TypeError")

\* checkType(value, type): TRUE when it throws a RAWError.
CheckType(value, type) ==
    \/ type = "number" /\ IsNaN(value)
    \/ type = "date" /\ (value.t # "date" \/ ~DayjsIsValid(value))

\* propGetters[k](row) of rowParser.
PropGetter(dataType, k, row) ==
    LET type == GetType(dataType)
        hasFormatter == GetFormatter(dataType) # "undefined"
        rowValue == Get(row, k)
        formatted == IF hasFormatter THEN ApplyFormatter(dataType, rowValue)
                     ELSE [thrown |-> FALSE, val |-> rowValue]
    IN  IF formatted.thrown THEN Thrown("TypeError")
        ELSE LET out == BasicGetter(formatted.val,
                                    IF hasFormatter THEN "identity" ELSE type)
             IN  IF out.thrown THEN out
                 ELSE IF CheckType(out.val, type) THEN Thrown("RAWError")
                 ELSE out

\* obj[k] = v
Put(obj, k, v) == [x \in DOMAIN obj \cup {k} |-> IF x = k THEN v ELSE obj[x]]

\* getter(row) with no try/catch: a failing getter raises out of the row
\* function.
TryGetterNoCatch(st, types, k, row) ==
    LET r == PropGetter(types[k], k, row)
    IN  IF r.thrown THEN [st EXCEPT !.raised = TRUE]
        ELSE [st EXCEPT !.out = Put(st.out, k, r.val)]

\* A catch that records the error and leaves out[k] unset.
TryGetterSkipsFailed(st, types, k, row) ==
    LET r == PropGetter(types[k], k, row)
    IN  IF r.thrown THEN [st EXCEPT !.error = Put(st.error, k, r.err)]
        ELSE [st EXCEPT !.out = Put(st.out, k, r.val)]

\* The try/catch around getter(row): what one column does to the row
\* function's state [out, error, raised].
TryGetter(st, types, k, row) ==
    LET r == PropGetter(types[k], k, row)
    IN  IF r.thrown
        THEN [st EXCEPT !.out = Put(st.out, k, Null),
                        !.error = Put(st.error, k, r.err)]
        ELSE [st EXCEPT !.out = Put(st.out, k, r.val)]

\* One try/catch around the whole forEach: the getters after a failing one
\* do not run.
RECURSIVE RowColumnsStopAtFailure(_, _, _, _)
RowColumnsStopAtFailure(types, keys, row, j) ==
    IF j = 0 THEN [out |-> EmptyObj, error |-> EmptyObj, raised |-> FALSE]
    ELSE LET st == RowColumnsStopAtFailure(types, keys, row, j - 1)
         IN  IF st.raised \/ DOMAIN st.error # {} THEN st
             ELSE IF PropGetter(types[keys[j]], keys[j], row).thrown
                  THEN [st EXCEPT !.error = Put(st.error, keys[j], "Error")]
                  ELSE [st EXCEPT !.out = Put(st.out, keys[j],
                                              PropGetter(types[keys[j]], keys[j], row).val)]

\* The forEach over Object.keys(propGetters) in the row function: the
\* state after the first j keys.
RECURSIVE RowColumns(_, _, _, _)
RowColumns(types, keys, row, j) ==
    IF j = 0 THEN [out |-> EmptyObj, error |-> EmptyObj, raised |-> FALSE]
    ELSE LET st == RowColumns(types, keys, row, j - 1)
         IN  IF st.raised THEN st ELSE TryGetter(st, types, keys[j], row)

\* A row function that calls onError for every row, failing or not.
RowParserAlwaysReports(acc, types, row, i) ==
    LET keys == Keys(types)
        st == RowColumns(types, keys, row, Len(keys))
    IN  [dataset |-> Append(acc.dataset, st.out),
         errors |-> Append(acc.errors, [row |-> i, error |-> st.error]),
         raised |-> FALSE]

\* The function rowParser returns, applied to (row, i): what it does to
\* the state [dataset, errors, raised] of parseRows.  i counts from 0.
RowParser(acc, types, row, i) ==
    LET keys == Keys(types)
        st == RowColumns(types, keys, row, Len(keys))
    IN  IF st.raised THEN [acc EXCEPT !.raised = TRUE]
        ELSE [dataset |-> Append(acc.dataset, st.out),
              errors |-> IF DOMAIN st.error # {}
                         THEN Append(acc.errors, [row |-> i, error |-> st.error])
                         ELSE acc.errors,
              raised |-> FALSE]

\* parseRows keeping only the rows that parsed without error (a filter in
\* place of the map).
RECURSIVE ParseRowsDropFailed(_, _, _)
ParseRowsDropFailed(data, dataTypes, n) ==
    IF n = 0 THEN [dataset |-> <<>>, errors |-> <<>>, raised |-> FALSE]
    ELSE LET acc == ParseRowsDropFailed(data, dataTypes, n - 1)
             next == RowParser(acc, dataTypes, data[n], n - 1)
         IN  IF Len(next.errors) > Len(acc.errors)
             THEN [acc EXCEPT !.errors = next.errors]
             ELSE next

\* parseRows(data, dataTypes): data.map(parser) over rows 1..n.
RECURSIVE ParseRows(_, _, _)
ParseRows(data, dataTypes, n) ==
    IF n = 0 THEN [dataset |-> <<>>, errors |-> <<>>, raised |-> FALSE]
    ELSE LET acc == ParseRows(data, dataTypes, n - 1)
         IN  IF acc.raised THEN acc ELSE RowParser(acc, dataTypes, data[n], n - 1)

\* The types argument of parseDataset: a type map, or omitted.
Given(map) == [given |-> TRUE, map |-> map]
Omitted == [given |-> FALSE, map |-> EmptyObj]

\* The default inferred in strict mode.
DefaultTypesStrict(data, types) ==
    IF types.given THEN types.map ELSE InferTypes(data, Bool("true"))

\* types || inferTypes(data)
DefaultTypes(data, types) ==
    IF types.given THEN types.map ELSE InferTypes(data, Undefined)

\* parseDataset(data, types)
ParseDataset(data, types) ==
    LET dataTypes == DefaultTypes(data, types)
        parsed == ParseRows(data, dataTypes, Len(data))
    IN  [dataset |-> parsed.dataset, dataTypes |-> dataTypes,
         errors |-> parsed.errors, raised |-> parsed.raised]

\* ------------------------------------------------------------- inputs
ColValues == [k \in Cols |->
    IF k = "a"
    THEN {Num("5"), Str("5"), Str("true"), Str("bad"), Str("2020-01-01"),
          Bool("true"), DateInst("2020-01-01"), Null}
    ELSE {Str("bad")}]

ColTypes == [k \in Cols |->
    IF k = "a"
    THEN {Ctor("number"), Ctor("boolean"), Ctor("string"), Ctor("date"),
          Name("date"), Obj("date", DateFormatTest, ""), Obj("", "", "length"),
          Obj("number", "", "parseFloat")}
    ELSE {Ctor("number"), Ctor("string")}]

\* Objects whose keys are columns, the value at k drawn from vals[k].
Objects(vals) ==
    UNION {{[k \in D |-> f[k]] :
               f \in {g \in [Cols -> UNION {vals[k] : k \in Cols}] :
                         \A k \in Cols : g[k] \in vals[k]}} :
           D \in SUBSET Cols}

Rows == Objects(ColValues)
TypeMaps == Objects(ColTypes)
Datasets(n) == UNION {[1..m -> Rows] : m \in 0..n}
StrictArgs == {Bool("true"), Bool("false"), Undefined}

\* -------------------------------------------------------- state machine
VARIABLES data, pc, types, strict, inferred, result, again

vars == <<data, pc, types, strict, inferred, result, again>>

NoResult == [dataset |-> <<>>, dataTypes |-> EmptyObj, errors |-> <<>>,
             raised |-> FALSE]

InitWith(datasets) ==
    /\ data \in datasets
    /\ pc = "start"
    /\ types = Omitted
    /\ strict = Undefined
    /\ inferred = EmptyObj
    /\ result = NoResult
    /\ again = NoResult

Init == InitWith(Datasets(MaxParseRows))

InitInfer == InitWith(Datasets(MaxInferRows))

\* A call parseDataset(data, t).
CallParseDataset ==
    /\ pc = "start"
    /\ \E t \in {Omitted} \cup {Given(m) : m \in TypeMaps} :
          /\ types' = t
          /\ result' = ParseDataset(data, t)
    /\ pc' = "parsed"
    /\ UNCHANGED <<data, strict, inferred, again>>

\* A second call on the same data, with the dataTypes the first returned.
CallParseDatasetAgain ==
    /\ pc = "parsed"
    /\ ~result.raised
    /\ again' = ParseDataset(data, Given(result.dataTypes))
    /\ pc' = "reparsed"
    /\ UNCHANGED <<data, types, strict, inferred, result>>

\* A call inferTypes(data, s).
CallInferTypes ==
    /\ pc = "start"
    /\ \E s \in StrictArgs :
          /\ strict' = s
          /\ inferred' = InferTypes(data, s)
    /\ pc' = "inferred"
    /\ UNCHANGED <<data, types, result, again>>

Next == CallParseDataset \/ CallParseDatasetAgain

Spec == Init /\ [][Next]_vars

NextInfer == CallInferTypes

SpecInfer == InitInfer /\ [][NextInfer]_vars

\* ------------------------------------------------------------- claims
Parsed == pc \in {"parsed", "reparsed"}

RowIndices == 1..Len(data)

\* The parsed cell (row i, column k); undefined when the result has none.
Cell(i, k) ==
    IF i \in 1..Len(result.dataset) /\ k \in DOMAIN result.dataset[i]
    THEN result.dataset[i][k]
    ELSE Undefined

\* The entries of the error list for input row i (row indices count from 0).
EntriesOf(i) == {e \in 1..Len(result.errors) : result.errors[e].row = i - 1}

\* An error is recorded for cell (row i, column k).
ErrorRecorded(i, k) == \E e \in EntriesOf(i) : k \in DOMAIN result.errors[e].error

\* The getter of column k, run on the raw value of cell (i, k) alone.
CellAlone(i, k) ==
    PropGetter(result.dataTypes[k], k, [x \in {k} \cap DOMAIN data[i] |-> data[i][x]])

\* The columns whose cell fails in row i.
FailCols(i) == {k \in DOMAIN result.dataTypes : CellAlone(i, k).thrown}

Absent(v) == v.t \in {"undefined", "null"}

\* A decode function that leaves an absent value absent.
DecodeKeepsAbsence(name) ==
    \A v \in {Undefined, Null} : ~Decode(name, v).thrown /\ Absent(Decode(name, v).val)

\* C1: whenever the raw record has no value (absent, null or undefined) at a
\* column of the type map, the parsed cell is null and no error is recorded
\* for it, for every descriptor variant (a custom decode being one that
\* does not turn absence into a failure).
C1_NullPropagation ==
    Parsed =>
        \A i \in RowIndices : \A k \in DOMAIN result.dataTypes :
            (/\ Absent(Get(data[i], k))
             /\ (result.dataTypes[k].decode # ""
                    => DecodeKeepsAbsence(result.dataTypes[k].decode)))
            => (Cell(i, k) = Null /\ ~ErrorRecorded(i, k))

\* C2: parseDataset never raises: it returns the triple, with every failing
\* cell (failed coercion, failed validation, raising decode) represented as
\* a null cell plus a recorded error.
C2_NeverRaises ==
    Parsed =>
        /\ ~result.raised
        /\ Len(result.dataset) = Len(data)
        /\ \A i \in RowIndices : \A k \in FailCols(i) :
              Cell(i, k) = Null /\ ErrorRecorded(i, k)

C2_Witness ==
    /\ pc = "parsed"
    /\ Len(data) = 2
    /\ \E k \in DOMAIN result.dataTypes :
          /\ result.dataTypes[k].decode = "length"
          /\ CellAlone(1, k).err = "TypeError"
    /\ \E k \in DOMAIN result.dataTypes : CellAlone(2, k).err = "RAWError"

\* C3: the error list has exactly one entry for each row with a failing
\* cell and none for the other rows, in increasing row order, and the
\* columns of the entry of row i are exactly the failing columns of row i,
\* each null in parsed row i.
C3_ErrorListExact ==
    Parsed =>
        /\ \A i \in RowIndices :
              Cardinality(EntriesOf(i)) = (IF FailCols(i) # {} THEN 1 ELSE 0)
        /\ \A e \in 1..Len(result.errors) :
              /\ result.errors[e].row + 1 \in RowIndices
              /\ DOMAIN result.errors[e].error = FailCols(result.errors[e].row + 1)
              /\ \A k \in DOMAIN result.errors[e].error :
                    Cell(result.errors[e].row + 1, k) = Null
        /\ \A e1, e2 \in 1..Len(result.errors) :
              e1 < e2 => result.errors[e1].row < result.errors[e2].row

C3_Witness ==
    /\ pc = "parsed"
    /\ Len(data) = 2
    /\ DOMAIN result.dataTypes = Cols
    /\ FailCols(1) = {}
    /\ Len(result.errors) = 1
    /\ result.errors[1].row = 1
    /\ DOMAIN result.errors[1].error = {"b"}

\* C4: the output dataset has the length of the input and output row i is
\* the parse of input row i.
C4_LengthAndOrder ==
    Parsed =>
        /\ Len(result.dataset) = Len(data)
        /\ \A i \in RowIndices :
              /\ i <= Len(result.dataset)
              /\ <<result.dataset[i]>> =
                    RowParser([dataset |-> <<>>, errors |-> <<>>, raised |-> FALSE],
                              result.dataTypes, data[i], i - 1).dataset

C4_Witness ==
    /\ pc = "parsed"
    /\ Len(data) = 2
    /\ Len(result.errors) = 1
    /\ result.errors[1].row = 0
    /\ result.dataset[1] # result.dataset[2]

\* C5: every parsed row has exactly the keys of the type map used for the
\* parse, whatever keys the raw record had and whichever cells failed.
C5_ColumnCoverage ==
    Parsed =>
        \A i \in 1..Len(result.dataset) :
            DOMAIN result.dataset[i] = DOMAIN result.dataTypes

C5_Witness ==
    /\ pc = "parsed"
    /\ Len(data) = 2
    /\ DOMAIN result.dataTypes = {"a"}
    /\ DOMAIN data[1] = {"b"}
    /\ DOMAIN data[2] = Cols
    /\ FailCols(2) = {"a"}
    /\ Len(result.dataset) = 2

\* The canonical key of a candidate label: its type tag and date format.
CanonicalKey(type) == <<type.type, type.dateFormat>>

\* The rows in which column k occurs.
Occurrences(k) == {i \in RowIndices : k \in DOMAIN data[i]}

\* The canonical key of the candidate of column k in row i.
KeyAt(i, k) == CanonicalKey(GetValueType(data[i][k], strict))

\* How many candidates of column k have this canonical key.
VoteCount(k, key) == Cardinality({i \in Occurrences(k) : KeyAt(i, k) = key})

\* C6: inferTypes gives a type to exactly the columns that occur in some
\* record, tallies one candidate per occurrence, and selects a canonical key
\* of maximal count; a key held by a strict majority is the one selected.
C6_MajorityVote ==
    pc = "inferred" =>
        /\ DOMAIN inferred = {k \in Cols : Occurrences(k) # {}}
        /\ \A k \in DOMAIN inferred :
              LET sel == CanonicalKey(inferred[k])
              IN  /\ \E i \in Occurrences(k) :
                        inferred[k] = GetValueType(data[i][k], strict)
                  /\ \A i \in Occurrences(k) :
                        /\ VoteCount(k, KeyAt(i, k)) <= VoteCount(k, sel)
                        /\ 2 * VoteCount(k, KeyAt(i, k)) > Cardinality(Occurrences(k))
                              => sel = KeyAt(i, k)

C6_Witness ==
    /\ pc = "inferred"
    /\ strict = Bool("false")
    /\ Len(data) = 3
    /\ DOMAIN data[1] = {"a"} /\ data[1]["a"] = Str("bad")
    /\ DOMAIN data[2] = {"a", "b"} /\ data[2]["a"] = Str("5")
    /\ DOMAIN data[3] = {"a"} /\ data[3]["a"] = Num("5")
    /\ inferred = [k \in Cols |-> IF k = "a" THEN Name("number") ELSE Name("string")]

\* C7: among the canonical keys of maximal count for a column, inferTypes
\* selects the one met first when scanning the rows in input order.
C7_TieBreakFirstSeen ==
    pc = "inferred" =>
        \A k \in DOMAIN inferred :
            LET sel == CanonicalKey(inferred[k])
            IN  \A i \in Occurrences(k) :
                    VoteCount(k, KeyAt(i, k)) >= VoteCount(k, sel)
                    => \E j \in Occurrences(k) : j <= i /\ KeyAt(j, k) = sel

C7_Witness ==
    /\ pc = "inferred"
    /\ strict = Bool("true")
    /\ Len(data) = 3
    /\ \A i \in RowIndices : "a" \in DOMAIN data[i]
    /\ data[1]["a"] = Str("2020-01-01")
    /\ data[2]["a"] = Num("5")
    /\ data[3]["a"] = Str("5")
    /\ inferred["a"] = Obj("date", DateFormatTest, "")

\* C8: with types omitted, parseDataset(data) returns what
\* parseDataset(data, inferTypes(data, false)) returns; with types supplied,
\* the returned dataTypes is the supplied map; and parsing the same data
\* again with the returned dataTypes gives the same dataset and errors.
C8_DefaultAndReuse ==
    /\ Parsed =>
          /\ ~types.given =>
                result = ParseDataset(data, Given(InferTypes(data, Bool("false"))))
          /\ types.given => result.dataTypes = types.map
    /\ pc = "reparsed" =>
          /\ again.dataset = result.dataset
          /\ again.errors = result.errors
          /\ again.dataTypes = result.dataTypes

C8_Witness ==
    /\ pc = "reparsed"
    /\ ~types.given
    /\ Len(data) = 2
    /\ DOMAIN result.dataTypes = {"a"}
    /\ result.dataTypes["a"] = Name("number")
    /\ Len(again.errors) = 1
    /\ Cell(1, "a") = Num("5")

\* C9: within a row every column getter runs even when another one failed,
\* and the value and error status of cell (i, k) are those of the getter of
\* k run on the raw value at (i, k) alone.
C9_CellIsolation ==
    Parsed =>
        \A i \in RowIndices : \A k \in DOMAIN result.dataTypes :
            LET r == CellAlone(i, k)
            IN  /\ Cell(i, k) = (IF r.thrown THEN Null ELSE r.val)
                /\ ErrorRecorded(i, k) <=> r.thrown

C9_Witness ==
    /\ pc = "parsed"
    /\ DOMAIN result.dataTypes = Cols
    /\ \E i \in RowIndices :
          /\ ErrorRecorded(i, "a")
          /\ ~ErrorRecorded(i, "b")
          /\ Cell(i, "b") = Str("bad")

\* C10: in a column whose descriptor is the bare Date type (no dateFormat,
\* no decode), a raw value that is a valid date instance gives a non-null
\* date cell and no error.
C10_BareDateCoercion ==
    Parsed =>
        \A i \in RowIndices : \A k \in DOMAIN result.dataTypes :
            (/\ result.dataTypes[k] \in {Ctor("date"), Name("date")}
             /\ Get(data[i], k).t = "date"
             /\ DayjsIsValid(Get(data[i], k)))
            => (Cell(i, k).t = "date" /\ ~ErrorRecorded(i, k))
====
